---------------------------- MODULE Spec2Model ----------------------------
(***************************************************************************)
(* Post controller of the LinkedIn clone                                   *)
(* (src/backend/controllers/post.controller.js).                           *)
(*                                                                         *)
(* The stored state is the Post collection, the Notification collection    *)
(* and the image assets held by the asset store.  Every handler is an      *)
(* async function: it runs from one `await` to the next without            *)
(* interruption, and other requests run while it waits.  A handler is      *)
(* therefore one action for its invocation and one action per awaited      *)
(* call; the latter performs the awaited call's effect on the stored state *)
(* together with the synchronous code that follows it up to the next       *)
(* await.  An awaited call either resolves or rejects; a rejection enters  *)
(* the enclosing catch block.                                              *)
(*                                                                         *)
(* The likes array of a post is a bag: the handlers test membership, push  *)
(* and filter, and never read the order.                                   *)
(*                                                                         *)
(* `resp` is the outcome of the step just taken when that step ended a     *)
(* request: the request's inputs, what it found and the response it sent.  *)
(* `solo`, `chain` and `last` record whether the likePost request in       *)
(* flight runs alone and directly after another one.                       *)
(***************************************************************************)
EXTENDS Naturals, Sequences, FiniteSets, Bags, TLC

\* ------------------------------------------------------------------ bounds
MaxComments == 2   \* comments per post
MaxNotifs   == 2   \* Notification records

\* Users with an account: the actors (req.user is set by the auth layer).
Users == {"alice", "bob"}
\* The requests that can be in flight at once.
Reqs == {1, 2}
\* The post ids the store hands out, in this order.
PostIds == {1}
\* Every id a post's author field or a connections list can hold: the
\* users, and "zed", whose account has been deleted.
Accounts == Users \cup {"zed"}
\* The post ids of the collections the read handlers are run on.
FeedIds == {1, 2, 3}

\* ------------------------------------------------------------------- state
VARIABLES
    posts,    \* Post collection: post id -> document (live = FALSE: no document)
    nextId,   \* next post id the store hands out
    assets,   \* asset store: ids of the posts whose image is stored
    notifs,   \* Notification collection, a bag of records
    req,      \* the requests in flight: slot -> handler position and locals
    resp,     \* the request the last step ended, and its response
    solo,     \* the request in flight is a likePost that has run alone
    chain,    \* <<likes before the previous toggle>> when that request
              \* directly follows a toggle of the same actor on the same post
    last      \* <<the toggle that ended last>>, if it ran alone and no
              \* request has been made since

vars == <<posts, nextId, assets, notifs, req, resp, solo, chain, last>>

NoPost == [live |-> FALSE, author |-> "none", image |-> FALSE,
           sentiment |-> "null", likes |-> EmptyBag, comments |-> <<>>]

\* new Post({author, content, image?, sentiment}): likes and comments empty.
NewPost(author, image, sentiment) ==
    [live |-> TRUE, author |-> author, image |-> image,
     sentiment |-> sentiment, likes |-> EmptyBag, comments |-> <<>>]

\* new Notification({recipient, type, relatedUser, relatedPost})
NewNotification(recipient, type, relatedUser, relatedPost) ==
    [recipient |-> recipient, type |-> type,
     relatedUser |-> relatedUser, relatedPost |-> relatedPost]

\* A request slot no request occupies; the locals of a handler.
Idle == [pc |-> "idle", op |-> "none", actor |-> "none", post |-> 0,
         found |-> FALSE, author |-> "none", image |-> FALSE,
         sentiment |-> "null", fault |-> "none",
         delta |-> "none", newLikes |-> EmptyBag, stale |-> FALSE,
         wasIn |-> FALSE, before |-> {}, made |-> 0, peer |-> <<>>,
         conns |-> {}]

InFlight(s) == req[s].pc /= "idle"
Quiet == \A s \in Reqs : ~InFlight(s)

\* A request takes the first free slot.
Free(r) == ~InFlight(r) /\ \A s \in Reqs : s < r => InFlight(s)

\* populate("author"): the author's document, or null when the account is gone.
Resolves(u) == u \in Users

\* ------------------------------------------------ expressions of the source
\* A membership test that never finds the id.
IncludesNever(likes, userId) == FALSE

\* likePost, line 254: post.likes.includes(userId)
Includes(likes, userId) == BagIn(userId, likes)

\* likePost, line 260: post.likes.push(userId)
Pushed(likes, userId) == likes (+) SetToBag({userId})

\* likePost, line 256: post.likes.filter(id => { id.toString() !== userId.toString() })
\* The arrow function has a block body without a return statement: it
\* returns undefined for every id, so filter keeps no element.
FilterKeeps(id, userId) == FALSE

Unliked(likes, userId) ==
    [id \in {x \in BagToSet(likes) : FilterKeeps(x, userId)} |-> likes[id]]

\* likePost, line 263: post.author.toString() !== userId.toString
\* The right-hand side is the method itself, not its result: a string is
\* compared with a function, and !== of the two is always true.
ToStringMethod == "function toString"

LikeNotifies(author, userId) == author /= ToStringMethod

\* A comparison that takes every commenter for a stranger.
CommentNotifiesAlways(author, userId) == TRUE

\* createComment, line 211: post.author._id.toString() !== req.user._id.toString()
CommentNotifies(author, userId) == author /= userId

\* An ownership check that lets everyone through.
NotAuthorNever(author, userId) == FALSE

\* deletePost, line 148: post.author.toString() !== userId.toString()
NotAuthor(author, userId) == author /= userId

\* -------------------------------------------------------------- bookkeeping
\* The Notification collection takes MaxNotifs records; a write to the
\* full collection is rejected.
NotifRoom == BagCardinality(notifs) < MaxNotifs

\* The last step ended no request.
NoResp ==
    [op |-> "none", actor |-> "none", post |-> 0,
     found |-> FALSE, author |-> "none", status |-> 0, fault |-> "none",
     wasIn |-> FALSE, made |-> 0, peer |-> <<>>, chain |-> <<>>,
     conns |-> {}, feed |-> <<>>]

\* The record of a request that ends: rec is its slot, code the status of
\* the response it sends (0: it sends none).
Ended(rec, code, fault) ==
    [NoResp EXCEPT
        !.op = rec.op, !.actor = rec.actor, !.post = rec.post,
        !.found = rec.found, !.author = rec.author,
        !.status = code, !.fault = fault,
        !.wasIn = rec.wasIn, !.made = rec.made, !.peer = rec.peer,
        !.conns = rec.conns]

Init ==
    /\ \E tomb \in BOOLEAN :
          /\ posts = [p \in PostIds |->
                        IF tomb /\ p = 1
                        THEN NewPost("zed", FALSE, "null") ELSE NoPost]
          /\ nextId = IF tomb THEN 2 ELSE 1
    /\ assets = {}
    /\ notifs = EmptyBag
    /\ req = [r \in Reqs |-> Idle]
    /\ resp = NoResp
    /\ solo = FALSE
    /\ chain = <<>>
    /\ last = <<>>

\* ------------------------------------------------------------- createPost
\* Lines 87-99: the handler is invoked and awaits the sentiment call.  The
\* id the new document will carry is taken here.  `silent`: the Sentiment
\* Service accepts this request's call and never answers it.
CreatePost(r) ==
    /\ Free(r)
    /\ nextId \in PostIds
    /\ \E actor \in Users, image \in BOOLEAN, silent \in BOOLEAN :
          req' = [req EXCEPT ![r] = [Idle EXCEPT
                    !.pc = "createSentiment", !.op = "create",
                    !.actor = actor, !.author = actor,
                    !.post = nextId, !.image = image,
                    !.fault = IF silent THEN "silent" ELSE "none"]]
    /\ nextId' = nextId + 1
    /\ solo' = FALSE
    /\ chain' = <<>>
    /\ resp' = NoResp
    /\ UNCHANGED <<posts, assets, notifs>>
    /\ last' = <<>>

\* A sentiment value that is set whether or not the call answered.
SentimentResultKept(answered) == "data"

\* Lines 92-105: sentimentResult is null, and becomes the data of the
\* answer only when axios.post resolves; a rejection (unreachable service,
\* transport error, non-2xx status) is caught by the inner catch.
SentimentResult(answered) == IF answered THEN "data" ELSE "null"

\* Lines 95-108: the sentiment call resolves with data, or rejects into
\* the inner catch and sentimentResult stays null.  axios.post is called
\* with a URL and a body only (lines 96-99): no timeout is configured and
\* the default of axios is none, so the promise of a call the service
\* never answers stays pending and the handler stays at line 96.
CreateSentiment(r) ==
    /\ req[r].pc = "createSentiment"
    /\ req[r].fault /= "silent"
    /\ \E answered \in BOOLEAN :
          req' = [req EXCEPT
                    ![r].pc = IF req[r].image THEN "createUpload" ELSE "createSave",
                    ![r].sentiment = SentimentResult(answered),
                    ![r].fault = IF answered THEN "none" ELSE "sentiment"]
    /\ resp' = NoResp
    /\ UNCHANGED <<posts, nextId, assets, notifs, solo, chain, last>>

\* An upload rejection that is swallowed: the request is answered 201.
UploadRejectedQuietly(rec) == Ended(rec, 201, "upload")

\* A rejection of line 109 is caught by lines 129-132: 500.
UploadRejected(rec) == Ended(rec, 500, "upload")

\* Lines 108-115: await cloudinary.uploader.upload(image); a rejection
\* goes to the catch of lines 129-132.
CreateUpload(r) ==
    /\ req[r].pc = "createUpload"
    /\ \/ /\ assets' = assets \cup {req[r].post}
          /\ req' = [req EXCEPT ![r].pc = "createSave"]
          /\ resp' = NoResp
       \/ /\ resp' = UploadRejected(req[r])
          /\ req' = [req EXCEPT ![r] = Idle]
          /\ UNCHANGED assets
    /\ UNCHANGED <<posts, nextId, notifs, solo, chain, last>>

\* Lines 124-132: await newPost.save(), then 201; a rejection gives 500.
CreateSave(r) ==
    /\ req[r].pc = "createSave"
    /\ \/ /\ posts' = [posts EXCEPT ![req[r].post] =
                         NewPost(req[r].actor, req[r].image, req[r].sentiment)]
          /\ resp' = Ended(req[r], 201, req[r].fault)
       \/ /\ resp' = Ended(req[r], 500, "db")
          /\ UNCHANGED posts
    /\ req' = [req EXCEPT ![r] = Idle]
    /\ UNCHANGED <<nextId, assets, notifs, solo, chain, last>>

\* --------------------------------------------------------------- likePost
\* The request follows, with nothing in between, a completed toggle of the
\* same actor on the same post that ran alone.
Follows(actor, p) ==
    /\ Quiet
    /\ last /= <<>>
    /\ last[1].actor = actor /\ last[1].post = p

\* Lines 248-251: the handler is invoked and awaits Post.findById(postId).
LikePost(r) ==
    /\ Free(r)
    /\ \E actor \in Users, p \in PostIds :
          /\ req' = [req EXCEPT ![r] = [Idle EXCEPT
                       !.pc = "likeLoad", !.op = "like",
                       !.actor = actor, !.post = p]]
          /\ chain' = IF Follows(actor, p) THEN <<last[1].before>> ELSE <<>>
    /\ solo' = Quiet
    /\ resp' = NoResp
    /\ UNCHANGED <<posts, nextId, assets, notifs>>
    /\ last' = <<>>

\* Lines 251-263: findById resolves; the synchronous branch up to the next
\* await.  The loaded document keeps what save() will send: the assignment
\* of line 256 makes it a $set of the whole likes array, the push of line
\* 260 a $push of userId.
LikeLoaded(rec, post) ==
    LET unlike == Includes(post.likes, rec.actor) IN
    [rec EXCEPT
        !.found = TRUE, !.author = post.author,
        !.wasIn = BagIn(rec.actor, post.likes),
        !.before = IF solo THEN BagToSet(post.likes) ELSE {},
        !.delta = IF unlike THEN "set" ELSE "push",
        !.newLikes = IF unlike THEN Unliked(post.likes, rec.actor)
                               ELSE EmptyBag,
        !.pc = IF ~unlike /\ LikeNotifies(post.author, rec.actor)
               THEN "likeNotify" ELSE "likeSave"]

\* The slots after the likePost request in slot r ends.  `saved`: its save
\* incremented the version key, so the documents other requests loaded from
\* the same post are stale.  `tell`: the requests of other actors on the
\* same post learn that this one ran beside them.
LikeEnds(r, saved, tell) ==
    [s \in Reqs |->
        IF s = r THEN Idle
        ELSE IF req[s].op = "like" /\ req[s].post = req[r].post
        THEN [req[s] EXCEPT
                 !.stale = (@ \/ saved) /\ req[s].found,
                 !.peer = IF tell /\ req[s].found /\ req[s].actor /= req[r].actor
                          THEN <<[actor |-> req[r].actor, wasIn |-> req[r].wasIn]>>
                          ELSE @]
        ELSE req[s]]

\* A null post makes `post.likes` of line 254 throw: catch, 500.
LikeLoad(r) ==
    /\ req[r].pc = "likeLoad"
    /\ LET post == posts[req[r].post] IN
       \/ /\ post.live
          /\ req' = [req EXCEPT ![r] = LikeLoaded(req[r], post)]
          /\ resp' = NoResp /\ UNCHANGED <<solo, chain>>
       \/ /\ ~post.live
          /\ resp' = Ended(req[r], 500, "none")
          /\ req' = LikeEnds(r, FALSE, FALSE)
          /\ solo' = FALSE /\ chain' = <<>>
       \/ /\ resp' = Ended(req[r], 500, "db")
          /\ req' = LikeEnds(r, FALSE, FALSE)
          /\ solo' = FALSE /\ chain' = <<>>
    /\ UNCHANGED <<posts, nextId, assets, notifs, last>>

\* Lines 264-273: await newNotification.save(); a rejection goes to the
\* catch of lines 281-284.
LikeNotify(r) ==
    /\ req[r].pc = "likeNotify"
    /\ LET n == NewNotification(req[r].author, "like",
                                req[r].actor, req[r].post) IN
       \/ /\ NotifRoom
          /\ notifs' = notifs (+) SetToBag({n})
          /\ req' = [req EXCEPT ![r].pc = "likeSave", ![r].made = @ + 1]
          /\ resp' = NoResp /\ UNCHANGED <<solo, chain>>
       \/ /\ resp' = Ended(req[r], 500, "notif")
          /\ req' = LikeEnds(r, FALSE, FALSE)
          /\ solo' = FALSE /\ chain' = <<>>
          /\ UNCHANGED notifs
    /\ UNCHANGED <<posts, nextId, assets, last>>

\* What post.save() of line 277 does with the loaded document (Mongoose
\* sends the changes, not the document): a $push of userId is applied to
\* the stored array and increments the version key; a $set of the likes
\* array carries the loaded version key in its query and applies only while
\* the stored key is still that one (`stale`: it is not).
SaveApplies(r) ==
    /\ posts[req[r].post].live
    /\ req[r].delta = "set" => ~req[r].stale

SavedLikes(r) ==
    IF req[r].delta = "push"
    THEN Pushed(posts[req[r].post].likes, req[r].actor)
    ELSE req[r].newLikes

\* Lines 277-284: await post.save(), then 200.  save() rejects when the
\* store fails, when the document is gone (DocumentNotFoundError) and when
\* the version key has moved under a $set (VersionError): catch, 500.
LikeSave(r) ==
    /\ req[r].pc = "likeSave"
    /\ \/ /\ SaveApplies(r)
          /\ posts' = [posts EXCEPT ![req[r].post].likes = SavedLikes(r)]
          /\ resp' = [Ended(req[r], 200, "none") EXCEPT !.chain = chain]
          /\ req' = LikeEnds(r, TRUE, TRUE)
          /\ last' = IF solo
                     THEN <<[actor |-> req[r].actor, post |-> req[r].post,
                             before |-> req[r].before]>>
                     ELSE <<>>
       \/ /\ ~SaveApplies(r)
          /\ resp' = Ended(req[r], 500, "none")
          /\ req' = LikeEnds(r, FALSE, TRUE)
          /\ UNCHANGED <<posts, last>>
       \/ /\ resp' = Ended(req[r], 500, "db")
          /\ req' = LikeEnds(r, FALSE, FALSE)
          /\ UNCHANGED <<posts, last>>
    /\ solo' = FALSE
    /\ chain' = <<>>
    /\ UNCHANGED <<nextId, assets, notifs>>

\* ------------------------------------------------------------- deletePost
\* Lines 135-141: the handler is invoked and awaits Post.findById(postId).
DeletePost(r) ==
    /\ Free(r)
    /\ \E actor \in Users, p \in PostIds :
          req' = [req EXCEPT ![r] = [Idle EXCEPT
                    !.pc = "deleteLoad", !.op = "delete",
                    !.actor = actor, !.post = p]]
    /\ solo' = FALSE
    /\ chain' = <<>>
    /\ resp' = NoResp
    /\ UNCHANGED <<posts, nextId, assets, notifs>>
    /\ last' = <<>>

\* Lines 141-156: findById resolves; 404 for no post, 403 when the actor
\* is not the author; otherwise on to the asset or to the record.
DeleteLoad(r) ==
    /\ req[r].pc = "deleteLoad"
    /\ LET post == posts[req[r].post]
           here == [req[r] EXCEPT !.found = TRUE, !.author = post.author,
                                  !.image = post.image] IN
       \/ /\ ~post.live
          /\ resp' = Ended(req[r], 404, "none")
          /\ req' = [req EXCEPT ![r] = Idle]
       \/ /\ post.live /\ NotAuthor(post.author, req[r].actor)
          /\ resp' = Ended(here, 403, "none")
          /\ req' = [req EXCEPT ![r] = Idle]
       \/ /\ post.live /\ ~NotAuthor(post.author, req[r].actor)
          /\ req' = [req EXCEPT ![r] =
                       [here EXCEPT !.pc = IF post.image THEN "deleteDestroy"
                                                         ELSE "deleteRecord"]]
          /\ resp' = NoResp
       \/ /\ resp' = Ended(req[r], 500, "db")
          /\ req' = [req EXCEPT ![r] = Idle]
    /\ UNCHANGED <<posts, nextId, assets, notifs, solo, chain, last>>

\* Lines 152-156: await cloudinary.uploader.destroy(...).  The call stands
\* directly in the handler's try block: a rejection goes to the catch of
\* lines 162-165, which answers 500; line 158 is not reached.
DeleteDestroy(r) ==
    /\ req[r].pc = "deleteDestroy"
    /\ \/ /\ assets' = assets \ {req[r].post}
          /\ req' = [req EXCEPT ![r].pc = "deleteRecord"]
          /\ resp' = NoResp
       \/ /\ resp' = Ended(req[r], 500, "asset")
          /\ req' = [req EXCEPT ![r] = Idle]
          /\ UNCHANGED assets
    /\ UNCHANGED <<posts, nextId, notifs, solo, chain, last>>

\* A delete that takes the post's Notifications with it.
CascadedNotifs(ns, p) ==
    [n \in {x \in BagToSet(ns) : x.relatedPost /= p} |-> ns[n]]

\* Line 158 deletes from the Post collection only; deletePost has no
\* statement on the Notification model.
NotifsAfterDelete(ns, p) == ns

\* Lines 158-165: await Post.findByIdAndDelete(postId), then 200.
DeleteRecord(r) ==
    /\ req[r].pc = "deleteRecord"
    /\ \/ /\ posts' = [posts EXCEPT ![req[r].post] = NoPost]
          /\ notifs' = NotifsAfterDelete(notifs, req[r].post)
          /\ resp' = Ended(req[r], 200, "none")
       \/ /\ resp' = Ended(req[r], 500, "db")
          /\ UNCHANGED <<posts, notifs>>
    /\ req' = [req EXCEPT ![r] = Idle]
    /\ UNCHANGED <<nextId, assets, solo, chain, last>>

\* ---------------------------------------------------------- createComment
\* Lines 187-204: the handler is invoked and awaits findByIdAndUpdate.
CreateComment(r) ==
    /\ Free(r)
    /\ \E actor \in Users, p \in PostIds :
          /\ Len(posts[p].comments)
               + Cardinality({s \in Reqs : req[s].pc = "commentAppend"
                                             /\ req[s].post = p})
               < MaxComments
          /\ req' = [req EXCEPT ![r] = [Idle EXCEPT
                       !.pc = "commentAppend", !.op = "comment",
                       !.actor = actor, !.post = p]]
    /\ solo' = FALSE
    /\ chain' = <<>>
    /\ resp' = NoResp
    /\ UNCHANGED <<posts, nextId, assets, notifs>>
    /\ last' = <<>>

\* The catch block, lines 242-245:
\*     console.error("Error in createComment controller:", errors);
\* `errors` is declared nowhere (the caught value is `error`): evaluating
\* the argument throws a ReferenceError inside the catch block, the async
\* function rejects and line 244 never sends the 500 response.
CommentCatch(rec, fault) == Ended(rec, 0, fault)

\* An append done by the handler on a document it read earlier: the
\* comments stored since are overwritten.
AppendedToRead(post, actor) ==
    [post EXCEPT !.comments = <<[user |-> actor, content |-> "nice"]>>]

\* The $push of lines 196-201.
Appended(post, actor) ==
    [post EXCEPT !.comments = Append(@, [user |-> actor, content |-> "nice"])]

\* Lines 192-211: Post.findByIdAndUpdate(postId, {$push: {comments}},
\* {new: true}).populate("author") resolves: one atomic append that returns
\* the updated post, or null when there is no such post.  Line 211 then
\* reads post.author._id: a null post, or a post whose author no longer
\* resolves (populate leaves null), throws a TypeError into the catch block.
CommentAppend(r) ==
    /\ req[r].pc = "commentAppend"
    /\ LET p == req[r].post
           post == posts[p]
           actor == req[r].actor
           here == [req[r] EXCEPT !.found = TRUE, !.author = post.author] IN
       \/ /\ ~post.live
          /\ resp' = CommentCatch(req[r], "none")
          /\ req' = [req EXCEPT ![r] = Idle]
          /\ UNCHANGED posts
       \/ /\ post.live /\ ~Resolves(post.author)
          /\ posts' = [posts EXCEPT ![p] = Appended(@, actor)]
          /\ resp' = CommentCatch(here, "none")
          /\ req' = [req EXCEPT ![r] = Idle]
       \/ /\ post.live /\ Resolves(post.author)
          /\ CommentNotifies(post.author, actor)
          /\ posts' = [posts EXCEPT ![p] = Appended(@, actor)]
          /\ req' = [req EXCEPT ![r] = [here EXCEPT !.pc = "commentNotify"]]
          /\ resp' = NoResp
       \/ /\ post.live /\ Resolves(post.author)
          /\ ~CommentNotifies(post.author, actor)
          /\ posts' = [posts EXCEPT ![p] = Appended(@, actor)]
          /\ resp' = Ended(here, 200, "none")
          /\ req' = [req EXCEPT ![r] = Idle]
       \/ /\ resp' = CommentCatch(req[r], "db")
          /\ req' = [req EXCEPT ![r] = Idle]
          /\ UNCHANGED posts
    /\ UNCHANGED <<nextId, assets, notifs, solo, chain, last>>

\* Lines 212-221: await newNotification.save().
CommentNotify(r) ==
    /\ req[r].pc = "commentNotify"
    /\ LET n == NewNotification(req[r].author, "comment",
                                req[r].actor, req[r].post) IN
       \/ /\ NotifRoom
          /\ notifs' = notifs (+) SetToBag({n})
          /\ req' = [req EXCEPT ![r].pc = "commentEmail", ![r].made = @ + 1]
          /\ resp' = NoResp
       \/ /\ resp' = CommentCatch(req[r], "notif")
          /\ req' = [req EXCEPT ![r] = Idle]
          /\ UNCHANGED notifs
    /\ UNCHANGED <<posts, nextId, assets, solo, chain, last>>

\* Lines 223-240: await sendCommentNotificationEmail(...) inside its own
\* try/catch, which only logs; line 240 answers 200 either way.
\* The send awaited directly in the handler's try block: its rejection
\* reaches the catch block.
EmailOutcomeThrows(rec, sent) ==
    IF sent THEN Ended(rec, 200, "none") ELSE CommentCatch(rec, "email")

EmailOutcome(rec, sent) == Ended(rec, 200, IF sent THEN "none" ELSE "email")

CommentEmail(r) ==
    /\ req[r].pc = "commentEmail"
    /\ \E sent \in BOOLEAN : resp' = EmailOutcome(req[r], sent)
    /\ req' = [req EXCEPT ![r] = Idle]
    /\ UNCHANGED <<posts, nextId, assets, notifs, solo, chain, last>>

\* ------------------------------------------------------------ read handlers
\* Post.find(): the stored posts.
AllPosts == {p \in DOMAIN posts : posts[p].live}

\* A network query that leaves the actor's own id out.
InNetworkOthersOnly(author, actor, conns) == author \in conns

\* getNetworkPosts, line 62: author: {$in: [...req.user.connections, req.user._id]}
InNetwork(author, actor, conns) == author \in conns \cup {actor}

\* Lines 59-64: Post.find({author: {$in: ...}}).
NetworkPosts(actor, conns) ==
    {p \in AllPosts : InNetwork(posts[p].author, actor, conns)}

\* .sort({createdAt: -1}) of lines 19, 43 and 73: newest first.  Ids are
\* handed out in the order of creation, so the newest post has the
\* greatest id.
SortedByCreatedAt(found) ==
    [i \in 1 .. Cardinality(found) |->
        CHOOSE x \in found : Cardinality({y \in found : y > x}) = i - 1]

\* A filter that keeps every post.
AuthorNotNullAlways(p) == TRUE

\* Lines 21, 45 and 75: post => post.author !== null, on the populated
\* documents; populate("author") has put null where the account is gone.
AuthorNotNull(p) == Resolves(posts[p].author)

\* filteredPosts of lines 21, 45 and 75.
FilteredPosts(found) == SelectSeq(SortedByCreatedAt(found), AuthorNotNull)

\* Lines 23, 49 and 79: res.status(200).json(filteredPosts).
Listed(rec, found) ==
    [Ended(rec, 200, "none") EXCEPT !.feed = FilteredPosts(found)]

\* Lines 7-19: getPublicPosts is invoked and awaits the query.  The handler
\* does not read req.user.
GetPublicPosts(r) ==
    /\ Free(r)
    /\ req' = [req EXCEPT ![r] = [Idle EXCEPT
                 !.pc = "publicFind", !.op = "public"]]
    /\ solo' = FALSE
    /\ chain' = <<>>
    /\ last' = <<>>
    /\ resp' = NoResp
    /\ UNCHANGED <<posts, nextId, assets, notifs>>

\* Lines 9-28: the query resolves, or rejects into the catch: 500.
PublicFind(r) ==
    /\ req[r].pc = "publicFind"
    /\ \/ resp' = Listed(req[r], AllPosts)
       \/ resp' = Ended(req[r], 500, "db")
    /\ req' = [req EXCEPT ![r] = Idle]
    /\ UNCHANGED <<posts, nextId, assets, notifs, solo, chain, last>>

\* Lines 31-43: getPersonalizedExploreFeed is invoked and awaits the query.
GetPersonalizedExploreFeed(r) ==
    /\ Free(r)
    /\ req' = [req EXCEPT ![r] = [Idle EXCEPT
                 !.pc = "exploreFind", !.op = "explore"]]
    /\ solo' = FALSE
    /\ chain' = <<>>
    /\ last' = <<>>
    /\ resp' = NoResp
    /\ UNCHANGED <<posts, nextId, assets, notifs>>

\* Lines 33-54: the query resolves, or rejects into the catch: 500.
ExploreFind(r) ==
    /\ req[r].pc = "exploreFind"
    /\ \/ resp' = Listed(req[r], AllPosts)
       \/ resp' = Ended(req[r], 500, "db")
    /\ req' = [req EXCEPT ![r] = Idle]
    /\ UNCHANGED <<posts, nextId, assets, notifs, solo, chain, last>>

\* Lines 57-73: getNetworkPosts is invoked by an actor whose user document
\* carries the connections, and awaits the query.
GetNetworkPosts(r) ==
    /\ Free(r)
    /\ \E actor \in Users :
          \E conns \in SUBSET (Accounts \ {actor}) :
             req' = [req EXCEPT ![r] = [Idle EXCEPT
                       !.pc = "networkFind", !.op = "network",
                       !.actor = actor, !.conns = conns]]
    /\ solo' = FALSE
    /\ chain' = <<>>
    /\ last' = <<>>
    /\ resp' = NoResp
    /\ UNCHANGED <<posts, nextId, assets, notifs>>

\* Lines 59-84: the query resolves, or rejects into the catch: 500.
NetworkFind(r) ==
    /\ req[r].pc = "networkFind"
    /\ \/ resp' = Listed(req[r], NetworkPosts(req[r].actor, req[r].conns))
       \/ resp' = Ended(req[r], 500, "db")
    /\ req' = [req EXCEPT ![r] = Idle]
    /\ UNCHANGED <<posts, nextId, assets, notifs, solo, chain, last>>

\* Lines 168-177: getPostById is invoked and awaits findById.
GetPostById(r) ==
    /\ Free(r)
    /\ \E p \in DOMAIN posts :
          req' = [req EXCEPT ![r] = [Idle EXCEPT
                    !.pc = "postFind", !.op = "get", !.post = p]]
    /\ solo' = FALSE
    /\ chain' = <<>>
    /\ last' = <<>>
    /\ resp' = NoResp
    /\ UNCHANGED <<posts, nextId, assets, notifs>>

\* Lines 171-184: findById resolves with the post or with null, and line
\* 179 answers 200 with either; a rejection gives 500.
PostFind(r) ==
    /\ req[r].pc = "postFind"
    /\ LET post == posts[req[r].post] IN
       \/ resp' = [Ended(req[r], 200, "none") EXCEPT
                      !.found = post.live, !.author = post.author]
       \/ resp' = Ended(req[r], 500, "db")
    /\ req' = [req EXCEPT ![r] = Idle]
    /\ UNCHANGED <<posts, nextId, assets, notifs, solo, chain, last>>

\* ------------------------------------------------------------------ system
\* The handlers that write.
Next ==
    \E r \in Reqs :
        \/ CreatePost(r)
        \/ CreateSentiment(r)
        \/ CreateUpload(r)
        \/ CreateSave(r)
        \/ DeletePost(r)
        \/ DeleteLoad(r)
        \/ DeleteDestroy(r)
        \/ DeleteRecord(r)
        \/ CreateComment(r)
        \/ CommentAppend(r)
        \/ CommentNotify(r)
        \/ CommentEmail(r)
        \/ LikePost(r)
        \/ LikeLoad(r)
        \/ LikeNotify(r)
        \/ LikeSave(r)

Spec == Init /\ [][Next]_vars

\* The read handlers.  Each is one query that changes nothing stored, so
\* what it returns depends on the stored posts at the moment of the query
\* alone: they run on every collection of up to three posts whose authors
\* are users or the deleted account.
FeedInit ==
    /\ posts \in [FeedIds -> {NoPost} \cup
                               {NewPost(a, FALSE, "null") : a \in Accounts}]
    /\ nextId = Cardinality(FeedIds) + 1
    /\ assets = {}
    /\ notifs = EmptyBag
    /\ req = [r \in Reqs |-> Idle]
    /\ resp = NoResp
    /\ solo = FALSE
    /\ chain = <<>>
    /\ last = <<>>

FeedNext ==
    \E r \in Reqs :
        \/ GetPublicPosts(r)
        \/ PublicFind(r)
        \/ GetPersonalizedExploreFeed(r)
        \/ ExploreFind(r)
        \/ GetNetworkPosts(r)
        \/ NetworkFind(r)
        \/ GetPostById(r)
        \/ PostFind(r)

FeedSpec == FeedInit /\ [][FeedNext]_vars

\* ------------------------------------------------------------------ claims
LikeNotification(r) ==
    NewNotification(r.author, "like", r.actor, r.post)

CommentNotification(r) ==
    NewNotification(r.author, "comment", r.actor, r.post)

\* C1: two consecutive Toggle Like requests by the same actor on the same
\* post, with no other request in between, leave the post's likes with the
\* members they had before the first toggle.
C1_ToggleTwiceRestores ==
    (resp.op = "like" /\ resp.status = 200 /\ resp.chain /= <<>>)
        => BagToSet(posts[resp.post].likes) = resp.chain[1]

\* C2: no Notification has its relatedUser as its recipient.
C2_NoSelfNotification ==
    \A n \in BagToSet(notifs) : n.relatedUser /= n.recipient

\* C3: a Toggle Like request by an actor who is not the post's author
\* writes exactly one like Notification (recipient the author, relatedUser
\* the actor) when the actor was not in likes, and none when the actor was;
\* it writes none only when the Notification write itself is rejected.
C3_LikeNotification ==
    (resp.op = "like" /\ resp.found /\ resp.author /= resp.actor)
        => /\ resp.wasIn => resp.made = 0
           /\ (~resp.wasIn /\ resp.fault /= "notif")
                 => /\ resp.made = 1
                    /\ BagIn(LikeNotification(resp), notifs)
           /\ (~resp.wasIn /\ resp.fault = "notif") => resp.made = 0

\* An unlike by a stranger that answers 200 and writes nothing, after the
\* like that wrote the one Notification there is.
C3_Witness ==
    /\ resp.op = "like" /\ resp.status = 200
    /\ resp.author /= resp.actor
    /\ resp.wasIn /\ resp.made = 0
    /\ notifs = SetToBag({LikeNotification(resp)})

\* C4: the likes of a post hold each user at most once.
C4_NoDuplicateLikes ==
    \A p \in PostIds : \A u \in Users : CopiesIn(u, posts[p].likes) <= 1

\* C5: when two Toggle Like requests by different users on the same post
\* overlap (both have loaded the post before either ends), then after both
\* have ended each user's membership in likes is the flip of what it was.
C5_ConcurrentTogglesBothApply ==
    (/\ resp.op = "like" /\ resp.found /\ resp.peer /= <<>>
     /\ resp.fault = "none" /\ posts[resp.post].live)
        => LET likes == posts[resp.post].likes IN
           /\ BagIn(resp.actor, likes) = ~resp.wasIn
           /\ BagIn(resp.peer[1].actor, likes) = ~resp.peer[1].wasIn

C7_EmailFailureHarmless ==
    [][\A r \in Reqs :
          (req[r].pc = "commentEmail" /\ req'[r].pc /= "commentEmail")
             => /\ posts' = posts
                /\ notifs' = notifs
                /\ resp'.op = "comment" /\ resp'.status = 200]_vars

\* The email failed; the comment and the Notification are stored and the
\* response is 200.
C7_Witness ==
    /\ resp.op = "comment" /\ resp.fault = "email" /\ resp.status = 200
    /\ BagIn(CommentNotification(resp), notifs)
    /\ \E i \in 1 .. Len(posts[resp.post].comments) :
          posts[resp.post].comments[i].user = resp.actor

\* C8: a Create Comment request for a post id with no post ends with 404
\* and writes no Notification.
C8_CommentOnMissingPost404 ==
    (resp.op = "comment" /\ ~resp.found /\ resp.fault = "none")
        => resp.status = 404 /\ resp.made = 0

\* C9: a Delete Post request by the owner whose asset delete fails still
\* removes the post record and ends with 200.
C9_DeleteSurvivesAssetFailure ==
    (resp.op = "delete" /\ resp.fault = "asset")
        => resp.status = 200 /\ ~posts[resp.post].live

\* C10: when findById of a Delete Post request returns a post whose author
\* is not the actor, the request ends there with 403, and the posts and the
\* asset store are as before.
C10_ForeignDeleteForbidden ==
    [][\A r \in Reqs :
          (/\ req[r].pc = "deleteLoad" /\ req'[r].pc /= "deleteLoad"
           /\ posts[req[r].post].live
           /\ posts[req[r].post].author /= req[r].actor
           /\ resp'.fault /= "db")
             => /\ req'[r].pc = "idle"
                /\ resp'.op = "delete" /\ resp'.status = 403
                /\ posts' = posts
                /\ assets' = assets]_vars

\* A foreign delete of a post with a stored image was answered 403; post
\* and image are still there.
C10_Witness ==
    /\ resp.op = "delete" /\ resp.status = 403
    /\ resp.author /= resp.actor
    /\ posts[resp.post].live /\ posts[resp.post].image
    /\ resp.post \in assets

\* C11: the step in which the image upload of a Create Post request fails
\* (the image does not reach the asset store) leaves the stored posts as
\* they were and ends the request with a 500 response.
C11_UploadFailureCreatesNoPost ==
    [][\A r \in Reqs :
          (/\ req[r].pc = "createUpload" /\ req'[r].pc /= "createUpload"
           /\ req[r].post \notin assets')
             => /\ posts' = posts
                /\ ~posts'[req[r].post].live
                /\ req'[r].pc = "idle"
                /\ resp'.op = "create" /\ resp'.status = 500]_vars

\* The upload failed: 500, no post under the id the request held, no
\* image stored.
C11_Witness ==
    /\ resp.op = "create" /\ resp.fault = "upload" /\ resp.status = 500
    /\ ~posts[resp.post].live
    /\ resp.post \notin assets

\* C12: a Create Post request whose sentiment call failed goes on with a
\* null sentiment; when it ends with that failure alone it has answered
\* 201 and its post is stored with sentiment null; a 500 of createPost
\* comes only from the upload or from the save.
C12_SentimentFailureTolerated ==
    /\ \A r \in Reqs :
          (req[r].op = "create" /\ req[r].fault = "sentiment")
             => /\ req[r].pc \in {"createUpload", "createSave"}
                /\ req[r].sentiment = "null"
    /\ (resp.op = "create" /\ resp.fault = "sentiment")
          => /\ resp.status = 201
             /\ posts[resp.post].live
             /\ posts[resp.post].author = resp.actor
             /\ posts[resp.post].sentiment = "null"
    /\ (resp.op = "create" /\ resp.status = 500)
          => resp.fault \in {"upload", "db"}

\* The sentiment call failed, the image was uploaded and the post saved.
C12_Witness ==
    /\ resp.op = "create" /\ resp.fault = "sentiment" /\ resp.status = 201
    /\ posts[resp.post].live /\ posts[resp.post].sentiment = "null"
    /\ posts[resp.post].image /\ resp.post \in assets

\* C14: a Create Comment or Toggle Like request whose Notification write
\* failed ends with a 500 response.
C14_NotificationFailureSurfaces ==
    (resp.op \in {"comment", "like"} /\ resp.fault = "notif")
        => resp.status = 500

\* C18: no step of a Delete Post request changes the Notification
\* collection.
C18_DeleteKeepsNotifications ==
    [][\A r \in Reqs :
          ((req[r].op = "delete" \/ req'[r].op = "delete")
           /\ req'[r] /= req[r])
             => notifs' = notifs]_vars

\* The post was deleted and a Notification about it is still stored.
C18_Witness ==
    /\ resp.op = "delete" /\ resp.status = 200
    /\ ~posts[resp.post].live
    /\ \E n \in BagToSet(notifs) : n.relatedPost = resp.post

\* C20: a Toggle Like request that ends with an error response has left
\* no Notification of its own in the store.
C20_FailedLikeLeavesNoNotification ==
    (resp.op = "like" /\ resp.status = 500) => resp.made = 0

\* C13: a Create Post request that waits for the sentiment call can always
\* go on, also when the Sentiment Service never answers: the call ends
\* after a bounded time and the handler continues.
C13_SentimentCallBounded ==
    \A r \in Reqs :
        req[r].pc = "createSentiment" => ENABLED CreateSentiment(r)

\* C15: every step changes the comments of a stored post by nothing, or
\* by appending at the end the one comment of the Create Comment request
\* that takes its append step; that request moves past its append, so a
\* request appends once.  Stored comments are never removed or reordered.
C15_CommentsAppendOnly ==
    [][\A p \in PostIds :
          (posts[p].live /\ posts'[p].live)
             => \/ posts'[p].comments = posts[p].comments
                \/ \E r \in Reqs :
                      /\ req[r].pc = "commentAppend" /\ req[r].post = p
                      /\ req'[r].pc /= "commentAppend"
                      /\ \A s \in Reqs \ {r} : req'[s] = req[s]
                      /\ posts'[p].comments =
                            Append(posts[p].comments,
                                   [user |-> req[r].actor, content |-> "nice"])]_vars

\* Two Create Comment requests are in flight, both past their append, and
\* the post holds both comments.
C15_Witness ==
    \E p \in PostIds :
        /\ \A r \in Reqs : /\ req[r].op = "comment" /\ req[r].post = p
                            /\ req[r].pc \in {"commentNotify", "commentEmail"}
        /\ Len(posts[p].comments) = 2

\* The posts a returned list holds.
Returned == {resp.feed[i] : i \in 1 .. Len(resp.feed)}

\* C16: a feed listing (public, personalized explore, network) whose
\* query did not fail answers 200 with a list that holds no post whose
\* author does not resolve; the public and the explore list hold every
\* other stored post.
C16_FeedsDropUnresolvedAuthors ==
    (resp.op \in {"public", "explore", "network"} /\ resp.fault = "none")
        => /\ resp.status = 200
           /\ \A p \in Returned : posts[p].live /\ Resolves(posts[p].author)
           /\ resp.op \in {"public", "explore"}
                 => Returned = {p \in DOMAIN posts :
                                  posts[p].live /\ Resolves(posts[p].author)}

\* A public or explore list was returned that holds a post, while a post of
\* the deleted account is stored.
C16_Witness ==
    /\ resp.op \in {"public", "explore"} /\ resp.status = 200
    /\ resp.feed /= <<>>
    /\ \E p \in DOMAIN posts : posts[p].live /\ ~Resolves(posts[p].author)

\* C17: the network feed returns, each once, exactly the stored posts
\* whose author resolves and is the actor or one of the actor's
\* connections.
C17_NetworkFeedExact ==
    (resp.op = "network" /\ resp.status = 200)
        => /\ Returned = {p \in DOMAIN posts :
                            /\ posts[p].live
                            /\ Resolves(posts[p].author)
                            /\ \/ posts[p].author = resp.actor
                               \/ posts[p].author \in resp.conns}
           /\ Cardinality(Returned) = Len(resp.feed)

\* A network list with the actor's own post, without the stored post of a
\* user who is no connection and without the stored post of a connection
\* whose account is gone.
C17_Witness ==
    /\ resp.op = "network" /\ resp.status = 200
    /\ \E p \in Returned : posts[p].author = resp.actor
    /\ \E p \in DOMAIN posts :
          /\ posts[p].live /\ Resolves(posts[p].author)
          /\ p \notin Returned
    /\ \E p \in DOMAIN posts :
          /\ posts[p].live /\ posts[p].author \in resp.conns
          /\ p \notin Returned

\* The request in slot r takes the next step of its handler.
Continues(r) ==
    \/ CreateSentiment(r) \/ CreateUpload(r) \/ CreateSave(r)
    \/ DeleteLoad(r) \/ DeleteDestroy(r) \/ DeleteRecord(r)
    \/ CommentAppend(r) \/ CommentNotify(r) \/ CommentEmail(r)
    \/ LikeLoad(r) \/ LikeNotify(r) \/ LikeSave(r)

\* C19: a request in flight always has a next step of its handler to
\* take, and the step in which a request ends sends a response, on the
\* success path and on every failure path.
C19_EveryRequestAnswered ==
    [][\A r \in Reqs :
          /\ InFlight(r) => ENABLED Continues(r)
          /\ (InFlight(r) /\ req'[r].pc = "idle") => resp'.status /= 0]_vars

=============================================================================
